---- MODULE Spec2Model ----
(***************************************************************************)
(* Workout calendar grid (InfiniteCalendar), its per-cell edit map, the    *)
(* web and touch drag-and-drop handlers, the react-query mutation hooks    *)
(* and the SQLite workout store.                                           *)
(*                                                                         *)
(* Calendar days are integers: day 0 is the start of the reference week,   *)
(* so the cell (weekIndex, dayIndex) has local day 7*weekIndex+dayIndex.   *)
(* A date string "YYYY-MM-DD" is modelled by its day number; a Date object *)
(* by its instant, in hours since the UTC midnight of day 0.               *)
(***************************************************************************)
EXTENDS Integers, Sequences, FiniteSets, TLC

\* ---------------------------------------------------------------- bounds
NumCells == 2            \* grid cells the user interacts with (consecutive days)
MaxCalls == 1            \* store mutations issued in one behaviour of Spec
MaxConcurrentCalls == 2  \* the same, in one behaviour of SpecConcurrent
MaxDragCalls == 2        \* the same, in one behaviour of SpecDrag
MaxWeek == 3             \* calendar functions: week indices -MaxWeek..MaxWeek

\* ------------------------------------------------------ program constants
COLUMNS == 8
MOBILE_BREAKPOINT == 600
ROW_HEIGHT == 192
HEADER_HEIGHT == 40
MOBILE_CELL_HEIGHT == 136
MOBILE_ROW_HEIGHT == COLUMNS * MOBILE_CELL_HEIGHT
TOTAL_WEEKS == 200
HoursPerDay == 24
STATUS_ORDER == <<"pending", "completed", "error">>

\* today's week index, as getCurrentWeekIndex() returns it at mount
CurrentWeek == 101

\* ------------------------------------------------------------ environment
TzOffsets == {-5, 0}            \* local time minus UTC, in hours
Envs == { [os |-> "web", width |-> 800],
          [os |-> "native", width |-> 400],
          [os |-> "native", width |-> 800] }

\* undefined / null values, one per type
NoArg == [date |-> 0, weekIndex |-> 0, workoutByDate |-> <<>>]
NoCalc == [fn |-> "none", arg |-> NoArg, result |-> 0]
NoKey == 0 - 1
NoCell == <<NoKey, NoKey>>
Null == "null"
NoWorkout ==
  [id |-> 0, title |-> "", description |-> Null, date |-> 0, status |-> "none",
   exerciseType |-> "none", durationSec |-> 0, distanceMeters |-> 0, load |-> 0]
NoCard == [state |-> "absent", value |-> "", dateKey |-> NoKey]
NoDrag == [workout |-> NoWorkout, sourceDateKey |-> NoKey]

VARIABLES
  tz,                 \* the device's UTC offset in standard time (hours)
  dst,                \* the daylight-saving rule of the device's time zone
  REFERENCE_WEEK_START, \* utils/calendar.ts: computed once, when the module loads
  calc,               \* the calendar function applied last, its argument and result
  env,                \* Platform.OS and the container width
  rows,               \* the workouts table: set of rows
  nextId,             \* AUTOINCREMENT sequence
  initialized,        \* module flag of db/workouts.ts
  storeOps,           \* db/workouts.ts: the calls in progress, each at its await
  initRuns,           \* history: how many times INIT_SQL has been executed
  tooltip,            \* TooltipProvider: its refs, its pending timers, the last call
  workouts,           \* data of useWorkouts(): the cached list
  fetching,           \* the ['workouts'] query is (re)fetching
  cellCards,          \* the per-cell edit map
  inflight,           \* mutations that have not settled
  issued,             \* number of mutate() calls so far
  budget,             \* number of mutate() calls the behaviour is followed for
  dragDataRef,        \* web drag payload
  webDrag,            \* the browser's drag session: idle, dragging or dropped
  mobileDragSourceRef,
  mobileDragWorkoutRef,
  mobileDragScrollEnabled,
  panState,           \* the pan gesture of the touched card: "idle" or "active"
  scrollOffsetRef,
  pendingBlur,        \* cell whose input still has a blur event to deliver
  lastOp              \* history: the handler that ran last and what it issued

vars == << tz, dst, REFERENCE_WEEK_START, calc, storeOps, initRuns, tooltip, env, rows, nextId, initialized, workouts, fetching, cellCards,
           inflight, issued, budget, dragDataRef, webDrag, mobileDragSourceRef,
           mobileDragWorkoutRef, mobileDragScrollEnabled, panState, scrollOffsetRef,
           pendingBlur, lastOp >>

\* ------------------------------------------------------------------ dates
\* dst names the local days on which the zone's clocks go forward (hour `at`
\* of standard time becomes at + 1) and back (hour `at` of summer time becomes
\* at - 1); a zone without daylight-saving time has the two on the same day
NoDst == [spring |-> 0, fall |-> 0, at |-> 2]
DstFrom == dst.spring * HoursPerDay + dst.at - tz
DstTo == dst.fall * HoursPerDay + dst.at - (tz + 1)
Offset(t) == IF dst.spring < dst.fall /\ DstFrom <= t /\ t < DstTo THEN tz + 1 ELSE tz

\* getFullYear/getMonth/getDate of a Date: its local calendar day
LocalDay(t) == (t + Offset(t)) \div HoursPerDay
getHours(t) == (t + Offset(t)) % HoursPerDay
\* getDay: day 0 is a Sunday
getDay(t) == LocalDay(t) % 7

\* the Date of a local day and hour.  A local time that the clocks skip or
\* repeat is read with the offset in force before the transition (ECMAScript)
FromLocal(day, hour) ==
  LET standard == day * HoursPerDay + hour - tz
      summer == standard - 1
  IN  IF Offset(summer) = tz + 1 THEN summer
      ELSE standard

\* new Date(year, month, day): local midnight of a calendar day
LocalMidnight(day) == FromLocal(day, 0)
\* d.setDate(day), d.setHours(0, 0, 0, 0)
setDate(t, day) == FromLocal(day, getHours(t))
setHours(t, hour) == FromLocal(LocalDay(t), hour)

formatDateKey(t) == LocalDay(t)

parseDateKey(dateKey) == LocalMidnight(dateKey)

dateToDateString(t) == LocalDay(t)

\* new Date(s + 'T00:00:00.000Z'): UTC midnight of the stored day
dateStringToDate(s) == s * HoursPerDay

\* utils/calendar.ts
WEEK_START_DAY == 0
getWeekStart(d) ==
  LET day == getDay(d)
      diff == (day - WEEK_START_DAY + 7) % 7
      date == setDate(d, LocalDay(d) - diff)
  IN  setHours(date, 0)

weekIndexToStartDate(weekIndex) ==
  setDate(REFERENCE_WEEK_START, LocalDay(REFERENCE_WEEK_START) + weekIndex * 7)

\* start.getTime() + i * MS_PER_DAY, for i = 0..6
getWeekDates(weekStart) ==
  LET start == setHours(weekStart, 0)
  IN  [i \in 1..7 |-> start + (i - 1) * HoursPerDay]

\* a DayInfo: the date, its (year, month, dayOfMonth) and isWeekend
getWeekInfo(weekStart) ==
  LET dates == getWeekDates(weekStart)
  IN  [i \in 1..7 |->
         [date |-> dates[i], day |-> LocalDay(dates[i]),
          isWeekend |-> getDay(dates[i]) \in {0, 6}]]

\* Math.trunc(n / m) for m > 0
MathTrunc(n, m) == IF n >= 0 THEN n \div m ELSE 0 - ((0 - n) \div m)
\* Math.round(n / m) for m > 0: halves round up
MathRound(n, m) == (2 * n + m) \div (2 * m)
\* dateToWeekIndex rounding down instead of to the nearest week
dateToWeekIndexFloor(date) ==
  (getWeekStart(date) - REFERENCE_WEEK_START) \div (7 * HoursPerDay)
dateToWeekIndex(date) ==
  LET weekStart == getWeekStart(date)
      diffMs == weekStart - REFERENCE_WEEK_START
  IN  MathRound(diffMs, 7 * HoursPerDay)

\* start.setDate(start.getDate() + dayIndex)
CellDate(weekIndex, dayIndex) ==
  LET start == weekIndexToStartDate(weekIndex)
  IN  setDate(start, LocalDay(start) + dayIndex)

cellKey(weekIndex, dayIndex) == <<weekIndex, dayIndex>>

\* WeekRow.weekWorkouts: the workouts of the week's days, in day order
RECURSIVE CollectWorkouts(_, _)
CollectWorkouts(days, workoutByDate) ==
  IF days = <<>> THEN <<>>
  ELSE LET key == formatDateKey(Head(days).date)
           rest == CollectWorkouts(Tail(days), workoutByDate)
       IN  IF key \in DOMAIN workoutByDate THEN <<workoutByDate[key]>> \o rest
           ELSE rest
weekWorkouts(weekIndex, workoutByDate) ==
  CollectWorkouts(getWeekInfo(weekIndexToStartDate(weekIndex)), workoutByDate)

\* SummaryCell: the six sums over weekWorkouts
RECURSIVE SummaryCell(_)
SummaryCell(list) ==
  IF list = <<>>
  THEN [completedSec |-> 0, completedMeters |-> 0, completedLoad |-> 0,
        totalSec |-> 0, totalMeters |-> 0, totalLoad |-> 0]
  ELSE LET w == Head(list)
           t == SummaryCell(Tail(list))
           done == w.status = "completed"
       IN  [completedSec |-> t.completedSec + (IF done THEN w.durationSec ELSE 0),
            completedMeters |-> t.completedMeters + (IF done THEN w.distanceMeters ELSE 0),
            completedLoad |-> t.completedLoad + (IF done THEN w.load ELSE 0),
            totalSec |-> t.totalSec + w.durationSec,
            totalMeters |-> t.totalMeters + w.distanceMeters,
            totalLoad |-> t.totalLoad + w.load]

\* ------------------------------------------------------------- the window
\* getCurrentWeekIndex, for the instant new Date() returns
getCurrentWeekIndex(now) ==
  LET currentWeekStart == getWeekStart(now)
      diffMs == currentWeekStart - REFERENCE_WEEK_START
  IN  MathRound(diffMs, 7 * HoursPerDay)

\* getWeekIndicesAroundToday, for the value getCurrentWeekIndex() returns
getWeekIndicesAround(current) ==
  LET half == TOTAL_WEEKS \div 2
      start == IF current - half > 0 THEN current - half ELSE 0
  IN  [ weekIndices |-> [i \in 1..TOTAL_WEEKS |-> start + (i - 1)],
        scrollToIndex |-> current - start ]
getWeekIndicesAroundToday == getWeekIndicesAround(CurrentWeek)

\* Array.prototype.indexOf: the first position, counted from 0, or -1
indexOf(list, x) ==
  LET found == { i \in 1..Len(list) : list[i] = x }
  IN  IF found = {} THEN 0 - 1
      ELSE (CHOOSE i \in found : \A j \in found : i <= j) - 1

\* what scrollToWeekIndex asks of the list: scrollToIndex({index, animated}),
\* or nothing
NoScroll == [index |-> 0 - 1, animated |-> FALSE]
\* scrollToWeekIndex taking the week index for the position
scrollToWeekIndexUnmapped(indices, weekIndex) ==
  IF weekIndex >= 0 /\ weekIndex < Len(indices)
  THEN [index |-> weekIndex, animated |-> TRUE]
  ELSE NoScroll
scrollToWeekIndex(indices, weekIndex) ==
  LET index == indexOf(indices, weekIndex)
  IN  IF index >= 0 THEN [index |-> index, animated |-> TRUE]
      ELSE NoScroll

weekIndices == getWeekIndicesAroundToday.weekIndices

\* the cells the model's user touches: NumCells consecutive days, from the
\* Friday of the first rendered week on
CellAt(i) == cellKey(weekIndices[1] + ((5 + i) \div 7), (5 + i) % 7)
Cells == { CellAt(i) : i \in 0..(NumCells - 1) }
CellDay(c) == LocalDay(CellDate(c[1], c[2]))

\* ------------------------------------------------------------------ text
\* Trim with the trimming forgotten
TrimNothing(s) == s

Trim(s) ==
  CASE s = " " -> ""
    [] s = " a " -> "a"
    [] OTHER -> s
TypedTexts == {" ", " a "}

\* ----------------------------------------------------------------- store
\* the seeded range 2026-01-01 .. 2026-02-28, in days of the model's calendar
SeedFrom == 1
SeedTo == 59
SEED_WORKOUTS ==
  << [title |-> "w", description |-> "6 x 400m", date |-> 7 * weekIndices[1] + 6,
      status |-> "pending", exerciseType |-> "run", durationSec |-> 45 * 60,
      distanceMeters |-> 2400, load |-> 0],
     [title |-> "w", description |-> Null, date |-> 7 * weekIndices[1] + 7,
      status |-> "completed", exerciseType |-> "cycle", durationSec |-> 50 * 60,
      distanceMeters |-> 18000, load |-> 0] >>

RowIds(rs) == { r.id : r \in rs }
RowOf(rs, id) == CHOOSE r \in rs : r.id = id

\* ORDER BY date DESC, id DESC
Before(a, b) == a.date > b.date \/ (a.date = b.date /\ a.id > b.id)
RECURSIVE OrderRows(_)
OrderRows(rs) ==
  IF rs = {} THEN <<>>
  ELSE LET first == CHOOSE r \in rs : \A o \in rs \ {r} : Before(r, o)
       IN  <<first>> \o OrderRows(rs \ {first})

\* a row as fetchWorkoutsFromDB maps it to a Workout
RowToWorkout(r) ==
  [id |-> r.id, title |-> r.title, description |-> r.description,
   date |-> dateStringToDate(r.date), status |-> r.status,
   exerciseType |-> r.exercise_type, durationSec |-> r.duration_sec,
   distanceMeters |-> r.distance_meters, load |-> r.load]

\* ensureWorkoutsTable: INIT_SQL drops and recreates the table, once
ensureWorkoutsTable(rs) == IF initialized THEN rs ELSE {}
ensureNextId == IF initialized THEN nextId ELSE 1

\* seedWorkoutsFor2026IfNeeded: insert the seeds when the range holds no row
RECURSIVE InsertAll(_, _, _)
InsertAll(rs, id, seeds) ==
  IF seeds = <<>> THEN rs
  ELSE LET w == Head(seeds)
       IN  InsertAll(rs \cup {[id |-> id, title |-> w.title,
                                description |-> w.description, date |-> w.date,
                                status |-> w.status, exercise_type |-> w.exerciseType,
                                duration_sec |-> w.durationSec,
                                distance_meters |-> w.distanceMeters, load |-> w.load]},
                     id + 1, Tail(seeds))
SeedNeeded(rs) == ~ \E r \in rs : r.date >= SeedFrom /\ r.date <= SeedTo
seedWorkoutsFor2026IfNeeded(rs, id) ==
  IF SeedNeeded(rs) THEN InsertAll(rs, id, SEED_WORKOUTS) ELSE rs
seedNextId(rs, id) == IF SeedNeeded(rs) THEN id + Len(SEED_WORKOUTS) ELSE id

\* createWorkoutInDB: INSERT with the local date of the Date passed in
createWorkoutInDB(rs, id, m) ==
  rs \cup {[id |-> id, title |-> m.title, description |-> m.description,
            date |-> dateToDateString(m.date), status |-> m.status,
            exercise_type |-> m.exerciseType, duration_sec |-> m.durationSec,
            distance_meters |-> m.distanceMeters, load |-> m.load]}

\* updateWorkoutInDB without the test of the SELECT's result
updateFoundAlways(rs, m) == TRUE

\* updateWorkoutInDB: SELECT ... WHERE id = ?, and throw when there is no row
updateFound(rs, m) == m.id \in RowIds(rs)
\* UPDATE workouts SET ... WHERE id = ?
updateWorkoutInDB(rs, m) ==
  { IF r.id = m.id
    THEN [id |-> m.id, title |-> m.title, description |-> m.description,
          date |-> dateToDateString(m.date), status |-> m.status,
          exercise_type |-> m.exerciseType, duration_sec |-> m.durationSec,
          distance_meters |-> m.distanceMeters, load |-> m.load]
    ELSE r : r \in rs }

\* DELETE FROM workouts without the WHERE clause
deleteWorkoutInDBAll(rs, id) == {}

\* DELETE FROM workouts WHERE id = ?
deleteWorkoutInDB(rs, id) == { r \in rs : r.id # id }

\* ------------------------------------------------------- the cached list
\* a.localeCompare(b) for two date strings 'YYYY-MM-DD'
localeCompare(a, b) == IF a < b THEN 0 - 1 ELSE IF a > b THEN 1 ELSE 0
\* the comparator of sortWorkouts: negative when a goes before b
compareWorkouts(a, b) ==
  LET dateCompare == localeCompare(b.date, a.date)
  IN  IF dateCompare # 0 THEN dateCompare ELSE b.id - a.id
\* Array.prototype.sort: stable, so an element goes behind its equals
RECURSIVE InsertInOrder(_, _)
InsertInOrder(sorted, w) ==
  IF sorted = <<>> THEN <<w>>
  ELSE IF compareWorkouts(w, Head(sorted)) < 0 THEN <<w>> \o sorted
  ELSE <<Head(sorted)>> \o InsertInOrder(Tail(sorted), w)
\* sortWorkouts returning the copy unsorted
sortWorkoutsNot(list) == list
RECURSIVE sortWorkouts(_)
sortWorkouts(list) ==
  IF list = <<>> THEN <<>>
  ELSE InsertInOrder(sortWorkouts(SubSeq(list, 1, Len(list) - 1)), list[Len(list)])
\* previous.findIndex((item) => item.id === workout.id), counted from 1; 0: none
findIndex(previous, id) ==
  LET found == { i \in 1..Len(previous) : previous[i].id = id }
  IN  IF found = {} THEN 0 ELSE CHOOSE i \in found : \A j \in found : i <= j
\* the data of the ['workouts'] query: a list, or undefined before the first fetch
QueryData(list) == [defined |-> TRUE, list |-> list]
NoData == [defined |-> FALSE, list |-> <<>>]
upsertWorkout(previous, workout) ==
  IF ~previous.defined \/ Len(previous.list) = 0 THEN <<workout>>
  ELSE LET index == findIndex(previous.list, workout.id)
       IN  IF index = 0 THEN sortWorkouts(Append(previous.list, workout))
           ELSE sortWorkouts([previous.list EXCEPT ![index] = workout])

\* -------------------------------------------------------- the grid's view
\* workoutsByDate without the map.has test: the last workout of a date wins
workoutsByDateOverwriting ==
  [ k \in { formatDateKey(workouts[i].date) : i \in 1..Len(workouts) } |->
      LET last == CHOOSE i \in 1..Len(workouts) :
                    /\ formatDateKey(workouts[i].date) = k
                    /\ \A j \in (i + 1)..Len(workouts) : formatDateKey(workouts[j].date) # k
      IN  workouts[last] ]

\* workoutsByDate: first workout of the cached list per date key
workoutsByDate ==
  [ k \in { formatDateKey(workouts[i].date) : i \in 1..Len(workouts) } |->
      LET first == CHOOSE i \in 1..Len(workouts) :
                     /\ formatDateKey(workouts[i].date) = k
                     /\ \A j \in 1..(i - 1) : formatDateKey(workouts[j].date) # k
      IN  workouts[first] ]
HasWorkout(dateKey) == dateKey \in DOMAIN workoutsByDate

\* the workout prop of a DayCell
WorkoutOf(c) == IF HasWorkout(CellDay(c)) THEN workoutsByDate[CellDay(c)] ELSE NoWorkout

\* cellCards[key] for any key of the window (the map only ever holds keys of Cells)
CardAt(k) == IF k \in Cells THEN cellCards[k] ELSE NoCard
HasCard(c) == CardAt(c) # NoCard
CardStateIs(c, s) == HasCard(c) /\ cellCards[c].state = s

\* DayCell.hasCardContent
hasCardContent(c) == HasCard(c) \/ WorkoutOf(c) # NoWorkout

\* DayCell.cardState
cardState(c) ==
  IF CardStateIs(c, "input") THEN "input"
  ELSE IF WorkoutOf(c) # NoWorkout THEN WorkoutOf(c).status
  ELSE IF HasCard(c) THEN cellCards[c].state ELSE "pending"

\* --------------------------------------------------------------- history
\* the mutations a handler has just handed to mutate()
NewCalls == SubSeq(inflight', Len(inflight) + 1, Len(inflight'))
\* the step just taken: the handler, its cell and what it issued, with the
\* cell's entry, the drag payload and the table as they were before it
\* (for a settled mutation: was the database available, did the call succeed)
Record(name, c, drag) ==
  [name |-> name, cell |-> c, calls |-> NewCalls, ok |-> TRUE, available |-> TRUE,
   entry |-> CardAt(c), drag |-> drag, rows |-> rows]
Op(name, c) == Record(name, c, NoDrag)

\* -------------------------------------------------------- mutation hooks
\* useMutation(...).mutate(variables, callbacks), called from cell c with the
\* callbacks cb ("submit": onSuccess and onError of handleCardSubmit, "delete":
\* onSuccess of handleCardDelete, "none").  The hook's observer follows the
\* newest mutation only, so the callbacks given to an earlier mutate() call of
\* the same hook that has not settled yet are never run
Mutation(kind, w, c, cb) ==
  [kind |-> kind, id |-> w.id, title |-> w.title, description |-> w.description,
   date |-> w.date, status |-> w.status, exerciseType |-> w.exerciseType,
   durationSec |-> w.durationSec, distanceMeters |-> w.distanceMeters,
   load |-> w.load, cell |-> c, cb |-> cb, observed |-> TRUE]
\* the variables object of a create or update call, field by field
WorkoutInput(id, title, description, date, status, exerciseType, durationSec, distanceMeters, load) ==
  [id |-> id, title |-> title, description |-> description, date |-> date,
   status |-> status, exerciseType |-> exerciseType, durationSec |-> durationSec,
   distanceMeters |-> distanceMeters, load |-> load]
Unobserve(kind) ==
  [i \in 1..Len(inflight) |->
     IF inflight[i].kind = kind THEN [inflight[i] EXCEPT !.observed = FALSE]
     ELSE inflight[i]]
mutate(kind, w, c, cb) ==
  /\ issued < budget
  /\ inflight' = Append(Unobserve(kind), Mutation(kind, w, c, cb))
  /\ issued' = issued + 1
NoCall == UNCHANGED <<inflight, issued>>

\* useUpdateWorkout without an onSuccess
useUpdateWorkoutSilent == "none"

\* what each hook's own onSuccess does: invalidateQueries(['workouts'])
useCreateWorkout == "invalidateQueries"
useUpdateWorkout == "invalidateQueries"
\* the grid imports useDeleteWorkout from hooks/use-workouts, which does not
\* define it: it is taken to invalidate the list as the other two hooks do
useDeleteWorkout == "invalidateQueries"
hookOnSuccess(kind) ==
  CASE kind = "create" -> useCreateWorkout
    [] kind = "update" -> useUpdateWorkout
    [] kind = "delete" -> useDeleteWorkout

\* removing a key by emptying the map
RemoveEvery(cards, c) == [k \in DOMAIN cards |-> NoCard]
Remove(cards, c) == [cards EXCEPT ![c] = NoCard]
\* NextStatus stepping two places along STATUS_ORDER
NextStatusSkipping(status) ==
  LET found == { i \in 1..Len(STATUS_ORDER) : STATUS_ORDER[i] = status }
      currentIndex == IF found = {} THEN 0 - 1 ELSE (CHOOSE i \in found : TRUE) - 1
  IN  STATUS_ORDER[((currentIndex + 2) % Len(STATUS_ORDER)) + 1]

NextStatus(status) ==
  LET found == { i \in 1..Len(STATUS_ORDER) : STATUS_ORDER[i] = status }
      currentIndex == IF found = {} THEN 0 - 1 ELSE (CHOOSE i \in found : TRUE) - 1
  IN  STATUS_ORDER[((currentIndex + 1) % Len(STATUS_ORDER)) + 1]

\* ------------------------------------------------------------- cell edits
\* handleCellPress without the test `key in prev`
handleCellPressResetting(c) ==
  /\ cellCards' = [cellCards EXCEPT ![c] =
                     [state |-> "input", value |-> "",
                      dateKey |-> formatDateKey(CellDate(c[1], c[2]))]]
  /\ NoCall

handleCellPress(c) ==
  /\ cellCards' = IF HasCard(c) THEN cellCards
                  ELSE [cellCards EXCEPT ![c] =
                          [state |-> "input", value |-> "",
                           dateKey |-> formatDateKey(CellDate(c[1], c[2]))]]
  /\ NoCall

handleCardChangeText(c, text) ==
  /\ cellCards' = IF ~HasCard(c) THEN cellCards
                  ELSE [cellCards EXCEPT ![c] =
                          [cellCards[c] EXCEPT !.state = "input", !.value = text]]
  /\ NoCall

\* handleCardSubmit without the lookup of the date's existing workout
handleCardSubmitCreating(c) ==
  LET current == cellCards[c]
      trimmedValue == Trim(current.value)
  IN  IF current = NoCard \/ current.state # "input"
      THEN UNCHANGED cellCards /\ NoCall
      ELSE IF trimmedValue = ""
      THEN cellCards' = Remove(cellCards, c) /\ NoCall
      ELSE /\ cellCards' = [cellCards EXCEPT ![c].state = "pending"]
           /\ mutate("create",
                     WorkoutInput(0, trimmedValue, Null, parseDateKey(current.dateKey),
                                  "pending", "run", 0, 0, 0),
                     c, "submit")

\* handleCardSubmit without the test of the entry's state
handleCardSubmitUnguarded(c) ==
  LET current == cellCards[c]
      trimmedValue == Trim(current.value)
  IN  IF current = NoCard
      THEN UNCHANGED cellCards /\ NoCall
      ELSE IF trimmedValue = ""
      THEN cellCards' = Remove(cellCards, c) /\ NoCall
      ELSE IF HasWorkout(current.dateKey)
      THEN LET existingWorkout == workoutsByDate[current.dateKey]
           IN  /\ cellCards' = [cellCards EXCEPT ![c].state = existingWorkout.status]
               /\ mutate("update",
                         WorkoutInput(existingWorkout.id, trimmedValue,
                                      existingWorkout.description, existingWorkout.date,
                                      existingWorkout.status, existingWorkout.exerciseType,
                                      existingWorkout.durationSec,
                                      existingWorkout.distanceMeters, existingWorkout.load),
                         c, "submit")
      ELSE /\ cellCards' = [cellCards EXCEPT ![c].state = "pending"]
           /\ mutate("create",
                     WorkoutInput(0, trimmedValue, Null, parseDateKey(current.dateKey),
                                  "pending", "run", 0, 0, 0),
                     c, "submit")

handleCardSubmit(c) ==
  LET current == cellCards[c]
      trimmedValue == Trim(current.value)
  IN  IF current = NoCard \/ current.state # "input"
      THEN UNCHANGED cellCards /\ NoCall
      ELSE IF trimmedValue = ""
      THEN cellCards' = Remove(cellCards, c) /\ NoCall
      ELSE IF HasWorkout(current.dateKey)
      THEN LET existingWorkout == workoutsByDate[current.dateKey]
           IN  /\ cellCards' = [cellCards EXCEPT ![c].state = existingWorkout.status]
               /\ mutate("update",
                         WorkoutInput(existingWorkout.id, trimmedValue,
                                      existingWorkout.description, existingWorkout.date,
                                      existingWorkout.status, existingWorkout.exerciseType,
                                      existingWorkout.durationSec,
                                      existingWorkout.distanceMeters, existingWorkout.load),
                         c, "submit")
      ELSE /\ cellCards' = [cellCards EXCEPT ![c].state = "pending"]
           /\ mutate("create",
                     WorkoutInput(0, trimmedValue, Null, parseDateKey(current.dateKey),
                                  "pending", "run", 0, 0, 0),
                     c, "submit")

handleCardCycleIcon(c, workout) ==
  /\ cellCards' =
       IF ~HasCard(c) \/ cellCards[c].state = "input" THEN cellCards
       ELSE [cellCards EXCEPT ![c].state =
               IF cellCards[c].state = "pending" THEN "completed"
               ELSE IF cellCards[c].state = "completed" THEN "error"
               ELSE "pending"]
  /\ IF workout # NoWorkout
     THEN mutate("update",
                 WorkoutInput(workout.id, workout.title, workout.description,
                              workout.date, NextStatus(workout.status),
                              workout.exerciseType, workout.durationSec,
                              workout.distanceMeters, workout.load),
                 c, "none")
     ELSE NoCall

\* a handleCardEdit that opens a workout's input without its title
handleCardEditUnfilled(c, workout) ==
  /\ cellCards' =
       IF workout # NoWorkout
       THEN [cellCards EXCEPT ![c] =
               [state |-> "input", value |-> "", dateKey |-> formatDateKey(workout.date)]]
       ELSE IF ~HasCard(c) \/ cellCards[c].state = "input" THEN cellCards
       ELSE [cellCards EXCEPT ![c].state = "input"]
  /\ NoCall

\* a handleCardEdit that does not reopen an entry in error state
handleCardEditKeepingError(c, workout) ==
  /\ cellCards' =
       IF workout # NoWorkout
       THEN [cellCards EXCEPT ![c] =
               [state |-> "input", value |-> workout.title,
                dateKey |-> formatDateKey(workout.date)]]
       ELSE IF ~HasCard(c) \/ cellCards[c].state \in {"input", "error"} THEN cellCards
       ELSE [cellCards EXCEPT ![c].state = "input"]
  /\ NoCall

handleCardEdit(c, workout) ==
  /\ cellCards' =
       IF workout # NoWorkout
       THEN [cellCards EXCEPT ![c] =
               [state |-> "input", value |-> workout.title,
                dateKey |-> formatDateKey(workout.date)]]
       ELSE IF ~HasCard(c) \/ cellCards[c].state = "input" THEN cellCards
       ELSE [cellCards EXCEPT ![c].state = "input"]
  /\ NoCall

\* a handleCardDelete that discards the entry before the store has answered
handleCardDeleteEager(c, workout) ==
  IF workout # NoWorkout
  THEN /\ mutate("delete", workout, c, "delete")
       /\ cellCards' = Remove(cellCards, c)
  ELSE /\ cellCards' = Remove(cellCards, c)
       /\ NoCall

handleCardDelete(c, workout) ==
  IF workout # NoWorkout
  THEN /\ mutate("delete", workout, c, "delete")
       /\ UNCHANGED cellCards
  ELSE /\ cellCards' = Remove(cellCards, c)
       /\ NoCall

\* ---------------------------------------------------------------- web drag
handleDragStartFromCell(c, workout) ==
  dragDataRef' = [workout |-> workout,
                  sourceDateKey |-> formatDateKey(CellDate(c[1], c[2]))]

handleDragEndFromCell == dragDataRef' = NoDrag

\* handleWorkoutDrop passing no description (updateWorkoutInDB defaults it to null)
handleWorkoutDropBare(c) ==
  LET dragData == dragDataRef
      targetDate == CellDate(c[1], c[2])
      targetDateKey == formatDateKey(targetDate)
  IN  IF \/ dragData = NoDrag
         \/ targetDateKey = dragData.sourceDateKey
         \/ HasWorkout(targetDateKey)
         \/ HasCard(cellKey(c[1], c[2]))
      THEN UNCHANGED dragDataRef /\ NoCall
      ELSE /\ mutate("update",
                     WorkoutInput(dragData.workout.id, dragData.workout.title,
                                  Null, targetDate,
                                  dragData.workout.status, dragData.workout.exerciseType,
                                  dragData.workout.durationSec,
                                  dragData.workout.distanceMeters, dragData.workout.load),
                     c, "none")
           /\ dragDataRef' = NoDrag

\* handleWorkoutDrop without the test for a workout on the target date
handleWorkoutDropOverwriting(c) ==
  LET dragData == dragDataRef
      targetDate == CellDate(c[1], c[2])
      targetDateKey == formatDateKey(targetDate)
  IN  IF \/ dragData = NoDrag
         \/ targetDateKey = dragData.sourceDateKey
         \/ HasCard(cellKey(c[1], c[2]))
      THEN UNCHANGED dragDataRef /\ NoCall
      ELSE /\ mutate("update",
                     WorkoutInput(dragData.workout.id, dragData.workout.title,
                                  dragData.workout.description, targetDate,
                                  dragData.workout.status, dragData.workout.exerciseType,
                                  dragData.workout.durationSec,
                                  dragData.workout.distanceMeters, dragData.workout.load),
                     c, "none")
           /\ dragDataRef' = NoDrag

handleWorkoutDrop(c) ==
  LET dragData == dragDataRef
      targetDate == CellDate(c[1], c[2])
      targetDateKey == formatDateKey(targetDate)
  IN  IF \/ dragData = NoDrag
         \/ targetDateKey = dragData.sourceDateKey
         \/ HasWorkout(targetDateKey)
         \/ HasCard(cellKey(c[1], c[2]))
      THEN UNCHANGED dragDataRef /\ NoCall
      ELSE /\ mutate("update",
                     WorkoutInput(dragData.workout.id, dragData.workout.title,
                                  dragData.workout.description, targetDate,
                                  dragData.workout.status, dragData.workout.exerciseType,
                                  dragData.workout.durationSec,
                                  dragData.workout.distanceMeters, dragData.workout.load),
                     c, "none")
           /\ dragDataRef' = NoDrag

\* -------------------------------------------------------------- touch drag
handleMobileDragStart(c) ==
  LET dateKey == formatDateKey(CellDate(c[1], c[2]))
  IN  IF ~HasWorkout(dateKey)
      THEN UNCHANGED <<mobileDragSourceRef, mobileDragWorkoutRef, mobileDragScrollEnabled>>
      ELSE /\ mobileDragSourceRef' = dateKey
           /\ mobileDragWorkoutRef' = workoutsByDate[dateKey]
           /\ mobileDragScrollEnabled' = FALSE

\* JavaScript's %: the sign of the dividend
JsRem(a, b) == IF a >= 0 THEN a % b ELSE 0 - ((0 - a) % b)

\* the cell under the release point, as handleMobileDragEnd computes it
targetWeekRowIndex(relativeY) ==
  IF env.width < MOBILE_BREAKPOINT
  THEN relativeY \div MOBILE_ROW_HEIGHT
  ELSE (relativeY - HEADER_HEIGHT) \div ROW_HEIGHT
targetDayIndex(relativeX, relativeY) ==
  IF env.width < MOBILE_BREAKPOINT
  THEN JsRem(relativeY, MOBILE_ROW_HEIGHT) \div MOBILE_CELL_HEIGHT
  ELSE (relativeX * COLUMNS) \div env.width
TargetValid(relativeX, relativeY) ==
  /\ targetDayIndex(relativeX, relativeY) >= 0
  /\ targetDayIndex(relativeX, relativeY) < 7
  /\ targetWeekRowIndex(relativeY) >= 0
  /\ targetWeekRowIndex(relativeY) < Len(weekIndices)
TargetCell(relativeX, relativeY) ==
  IF TargetValid(relativeX, relativeY)
  THEN cellKey(weekIndices[targetWeekRowIndex(relativeY) + 1],
               targetDayIndex(relativeX, relativeY))
  ELSE NoCell

\* the cell rendered under a point of the list's content.  renderItem gives
\* every column the width (width - 1) / columns; a multi-column WeekRow is
\* ROW_HEIGHT high below the list header, a single-column WeekRow stacks seven
\* day cells and the summary cell, MOBILE_CELL_HEIGHT each, with no header
renderedRow(contentY) ==
  IF env.width < MOBILE_BREAKPOINT
  THEN contentY \div MOBILE_ROW_HEIGHT
  ELSE (contentY - HEADER_HEIGHT) \div ROW_HEIGHT
renderedColumn(contentX, contentY) ==
  IF env.width < MOBILE_BREAKPOINT
  THEN (contentY % MOBILE_ROW_HEIGHT) \div MOBILE_CELL_HEIGHT
  ELSE (contentX * COLUMNS) \div (env.width - 1)
RenderedCell(contentX, contentY) ==
  IF /\ renderedRow(contentY) \in 0..(Len(weekIndices) - 1)
     /\ renderedColumn(contentX, contentY) \in 0..6
  THEN cellKey(weekIndices[renderedRow(contentY) + 1], renderedColumn(contentX, contentY))
  ELSE NoCell

\* handleMobileDragEnd applying every release over a cell of the grid
handleMobileDragEndUnchecked(absX, absY) ==
  LET currentWorkout == mobileDragWorkoutRef
      relativeY == absY + scrollOffsetRef
      relativeX == absX
      target == TargetCell(relativeX, relativeY)
      targetDate == CellDate(target[1], target[2])
  IN  /\ IF TargetValid(relativeX, relativeY) /\ currentWorkout # NoWorkout
         THEN mutate("update",
                     WorkoutInput(currentWorkout.id, currentWorkout.title,
                                  currentWorkout.description, targetDate,
                                  currentWorkout.status, currentWorkout.exerciseType,
                                  currentWorkout.durationSec,
                                  currentWorkout.distanceMeters, currentWorkout.load),
                     target, "none")
         ELSE NoCall
      /\ mobileDragSourceRef' = NoKey
      /\ mobileDragWorkoutRef' = NoWorkout
      /\ mobileDragScrollEnabled' = TRUE

\* handleMobileDragEnd without the test of the target cell's edit entry
handleMobileDragEndIgnoringEdits(absX, absY) ==
  LET currentWorkout == mobileDragWorkoutRef
      relativeY == absY + scrollOffsetRef
      relativeX == absX
      target == TargetCell(relativeX, relativeY)
      targetDate == CellDate(target[1], target[2])
      targetDateKey == formatDateKey(targetDate)
  IN  /\ IF /\ TargetValid(relativeX, relativeY)
            /\ mobileDragSourceRef # NoKey
            /\ currentWorkout # NoWorkout
            /\ targetDateKey # mobileDragSourceRef
            /\ ~HasWorkout(targetDateKey)
         THEN mutate("update",
                     WorkoutInput(currentWorkout.id, currentWorkout.title,
                                  currentWorkout.description, targetDate,
                                  currentWorkout.status, currentWorkout.exerciseType,
                                  currentWorkout.durationSec,
                                  currentWorkout.distanceMeters, currentWorkout.load),
                     target, "none")
         ELSE NoCall
      /\ mobileDragSourceRef' = NoKey
      /\ mobileDragWorkoutRef' = NoWorkout
      /\ mobileDragScrollEnabled' = TRUE

handleMobileDragEnd(absX, absY) ==
  LET currentWorkout == mobileDragWorkoutRef
      relativeY == absY + scrollOffsetRef
      relativeX == absX
      target == TargetCell(relativeX, relativeY)
      targetDate == CellDate(target[1], target[2])
      targetDateKey == formatDateKey(targetDate)
  IN  /\ IF /\ TargetValid(relativeX, relativeY)
            /\ mobileDragSourceRef # NoKey
            /\ currentWorkout # NoWorkout
            /\ targetDateKey # mobileDragSourceRef
            /\ ~HasWorkout(targetDateKey)
            /\ ~HasCard(target)
         THEN mutate("update",
                     WorkoutInput(currentWorkout.id, currentWorkout.title,
                                  currentWorkout.description, targetDate,
                                  currentWorkout.status, currentWorkout.exerciseType,
                                  currentWorkout.durationSec,
                                  currentWorkout.distanceMeters, currentWorkout.load),
                     target, "none")
         ELSE NoCall
      /\ mobileDragSourceRef' = NoKey
      /\ mobileDragWorkoutRef' = NoWorkout
      /\ mobileDragScrollEnabled' = TRUE

\* ------------------------------------------------------------ user events
\* one pointer and one keyboard: no other input while a drag gesture is in
\* progress or while the blur that follows a submit is still to be delivered
UserFree ==
  /\ pendingBlur = NoCell
  /\ webDrag = "idle"
  /\ panState = "idle"

dragVars == <<dragDataRef, webDrag, mobileDragSourceRef, mobileDragWorkoutRef,
              mobileDragScrollEnabled, panState, scrollOffsetRef>>
fixedVars == <<tz, dst, REFERENCE_WEEK_START, calc, storeOps, initRuns, tooltip, env, budget>>
storeVars == <<fixedVars, rows, nextId, initialized, workouts, fetching>>

\* DayCell's Pressable: onPress reaches the grid only when no workout is shown
Press(c) ==
  /\ UserFree
  /\ WorkoutOf(c) = NoWorkout
  /\ handleCellPress(c)
  /\ lastOp' = Op("press", c)
  /\ UNCHANGED <<storeVars, dragVars, pendingBlur>>

ChangeText(c, text) ==
  /\ UserFree
  /\ CardStateIs(c, "input")
  /\ handleCardChangeText(c, text)
  /\ lastOp' = Op("changeText", c)
  /\ UNCHANGED <<storeVars, dragVars, pendingBlur>>

\* the return key: onSubmitEditing, which the platform may follow by onBlur
SubmitEditing(c) ==
  /\ UserFree
  /\ CardStateIs(c, "input")
  /\ handleCardSubmit(c)
  /\ \E b \in {c, NoCell} : pendingBlur' = b
  /\ lastOp' = Op("submit", c)
  /\ UNCHANGED <<storeVars, dragVars>>

\* onBlur: the input loses focus, or the blur queued behind a submit arrives
Blur(c) ==
  /\ \/ UserFree /\ CardStateIs(c, "input")
     \/ pendingBlur = c
  /\ handleCardSubmit(c)
  /\ pendingBlur' = NoCell
  /\ lastOp' = Op(IF pendingBlur = c THEN "blurAfterSubmit" ELSE "submit", c)
  /\ UNCHANGED <<storeVars, dragVars>>

IconPress(c) ==
  /\ UserFree
  /\ hasCardContent(c)
  /\ handleCardCycleIcon(c, WorkoutOf(c))
  /\ lastOp' = Op("iconPress", c)
  /\ UNCHANGED <<storeVars, dragVars, pendingBlur>>

TextPress(c) ==
  /\ UserFree
  /\ hasCardContent(c)
  /\ cardState(c) # "input"
  /\ handleCardEdit(c, WorkoutOf(c))
  /\ lastOp' = Op("textPress", c)
  /\ UNCHANGED <<storeVars, dragVars, pendingBlur>>

Delete(c) ==
  /\ UserFree
  /\ hasCardContent(c)
  /\ handleCardDelete(c, WorkoutOf(c))
  /\ lastOp' = Op("delete", c)
  /\ UNCHANGED <<storeVars, dragVars, pendingBlur>>

\* WorkoutCard's drag effect: the card is draggable when it shows a workout and
\* is not an input
Draggable(c) == WorkoutOf(c) # NoWorkout /\ cardState(c) # "input"

DragStart(c) ==
  /\ UserFree
  /\ env.os = "web"
  /\ Draggable(c)
  /\ handleDragStartFromCell(c, WorkoutOf(c))
  /\ webDrag' = "dragging"
  /\ NoCall
  /\ lastOp' = Op("dragStart", c)
  /\ UNCHANGED <<storeVars, cellCards, mobileDragSourceRef, mobileDragWorkoutRef,
                 mobileDragScrollEnabled, panState, scrollOffsetRef, pendingBlur>>

\* a drop event on a cell: of the drag in progress, or of something dragged in
\* from outside the grid
Drop(c) ==
  /\ env.os = "web"
  /\ webDrag \in {"idle", "dragging"}
  /\ pendingBlur = NoCell
  /\ handleWorkoutDrop(c)
  /\ webDrag' = IF webDrag = "dragging" THEN "dropped" ELSE webDrag
  /\ lastOp' = Record("drop", c, dragDataRef)
  /\ UNCHANGED <<storeVars, cellCards, mobileDragSourceRef, mobileDragWorkoutRef,
                 mobileDragScrollEnabled, panState, scrollOffsetRef, pendingBlur>>

\* dragend is delivered to the source card, if it is still there to hear it
SourceCardListens ==
  \E c \in Cells : /\ formatDateKey(CellDate(c[1], c[2])) = dragDataRef.sourceDateKey
                   /\ Draggable(c)
DragEnd ==
  /\ env.os = "web"
  /\ webDrag \in {"dragging", "dropped"}
  /\ IF dragDataRef = NoDrag \/ SourceCardListens
     THEN handleDragEndFromCell
     ELSE UNCHANGED dragDataRef
  /\ webDrag' = "idle"
  /\ NoCall
  /\ lastOp' = Op("dragEnd", NoCell)
  /\ UNCHANGED <<storeVars, cellCards, mobileDragSourceRef, mobileDragWorkoutRef,
                 mobileDragScrollEnabled, panState, scrollOffsetRef, pendingBlur>>

\* DayCell.panGesture is non-null, and the card is wrapped in a
\* GestureDetector, only on a touch platform for a cell that shows a workout
\* and is not being edited
panGesture(c) ==
  /\ env.os = "native"
  /\ WorkoutOf(c) # NoWorkout
  /\ ~CardStateIs(c, "input")

\* onStart: the long press on a card activates the gesture
TouchStart(c) ==
  /\ UserFree
  /\ panGesture(c)
  /\ handleMobileDragStart(c)
  /\ panState' = "active"
  /\ NoCall
  /\ lastOp' = Op("touchStart", c)
  /\ UNCHANGED <<storeVars, cellCards, dragDataRef, webDrag, scrollOffsetRef, pendingBlur>>

\* release points, relative to the container's top-left corner
ReleaseXs == {50, 550, 650, 750}
ReleaseYs == {0 - 10, 20, 100, 300, 700, 850, 1000, 1150}
ScrollOffsets == {0, 680}

\* onEnd: the active gesture finishes (released or cancelled) at a point
TouchEnd(absX, absY) ==
  /\ env.os = "native"
  /\ panState = "active"
  /\ panState' = "idle"
  /\ TargetCell(absX, absY + scrollOffsetRef) \in Cells \cup {NoCell}
  /\ handleMobileDragEnd(absX, absY)
  /\ lastOp' = Record("touchEnd", TargetCell(absX, absY + scrollOffsetRef),
                       [workout |-> mobileDragWorkoutRef,
                        sourceDateKey |-> mobileDragSourceRef])
  /\ UNCHANGED <<storeVars, cellCards, dragDataRef, webDrag, scrollOffsetRef, pendingBlur>>

\* the GestureDetector of the card the drag started on is rendered only while
\* that cell's panGesture is non-null.  When a refetch takes the workout out
\* of the cell during the drag, the detector is unmounted and its handlers are
\* dropped; whether onEnd still runs is up to the gesture library (TouchEnd
\* stays enabled), and this is the outcome in which it does not
SourceDetectorMounted ==
  \E c \in Cells : CellDay(c) = mobileDragSourceRef /\ panGesture(c)
PanDropped ==
  /\ panState = "active"
  /\ ~SourceDetectorMounted
  /\ panState' = "idle"
  /\ NoCall
  /\ lastOp' = Op("panDropped", NoCell)
  /\ UNCHANGED <<storeVars, cellCards, dragDataRef, webDrag, mobileDragSourceRef,
                 mobileDragWorkoutRef, mobileDragScrollEnabled, scrollOffsetRef,
                 pendingBlur>>

\* handleScroll
Scroll(y) ==
  /\ UserFree
  /\ env.os = "native"
  /\ mobileDragScrollEnabled
  /\ y # scrollOffsetRef
  /\ scrollOffsetRef' = y
  /\ NoCall
  /\ lastOp' = Op("scroll", NoCell)
  /\ UNCHANGED <<storeVars, cellCards, dragDataRef, webDrag, mobileDragSourceRef,
                 mobileDragWorkoutRef, mobileDragScrollEnabled, panState, pendingBlur>>

\* ------------------------------------------------------------ store events
DropIndex(q, i) == SubSeq(q, 1, i - 1) \o SubSeq(q, i + 1, Len(q))

\* the per-call callbacks of handleCardSubmit and handleCardDelete
onSuccess(cards, m) ==
  IF m.observed /\ m.cb \in {"submit", "delete"} THEN Remove(cards, m.cell) ELSE cards
onError(cards, m) ==
  IF m.observed /\ m.cb = "submit" /\ cards[m.cell] # NoCard
  THEN [cards EXCEPT ![m.cell].state = "error"]
  ELSE cards

\* a mutation runs against the database and settles; ok = FALSE is the database
\* being unavailable
Settle(i, ok) ==
  LET m == inflight[i]
      table == ensureWorkoutsTable(rows)
      id == ensureNextId
      succeeded == ok /\ (m.kind # "update" \/ updateFound(table, m))
  IN  /\ pendingBlur = NoCell
      /\ initialized' = (initialized \/ ok)
      /\ rows' = IF ~ok THEN rows
                 ELSE IF m.kind = "create" THEN createWorkoutInDB(table, id, m)
                 ELSE IF m.kind = "update"
                 THEN (IF updateFound(table, m) THEN updateWorkoutInDB(table, m) ELSE table)
                 ELSE deleteWorkoutInDB(table, m.id)
      /\ nextId' = IF ~ok THEN nextId
                   ELSE IF m.kind = "create" THEN id + 1 ELSE id
      /\ fetching' = (fetching \/ (succeeded /\ hookOnSuccess(m.kind) = "invalidateQueries"))
      /\ cellCards' = IF succeeded THEN onSuccess(cellCards, m) ELSE onError(cellCards, m)
      /\ inflight' = DropIndex(inflight, i)
      /\ lastOp' = [name |-> "settle", cell |-> m.cell, calls |-> <<m>>,
                    ok |-> succeeded, available |-> ok, entry |-> CardAt(m.cell),
                    drag |-> NoDrag, rows |-> rows]
      /\ UNCHANGED <<fixedVars, workouts, issued, dragVars, pendingBlur>>

\* fetchWorkoutsFromDB
fetchWorkoutsFromDB(rs) ==
  LET ordered == OrderRows(rs)
  IN  [i \in 1..Len(ordered) |-> RowToWorkout(ordered[i])]

\* the ['workouts'] query settles; a failed query function is retried by the
\* query client, so the step is the attempt that reads the table
Fetch ==
  LET table == ensureWorkoutsTable(rows)
      id == ensureNextId
      seeded == seedWorkoutsFor2026IfNeeded(table, id)
  IN  /\ pendingBlur = NoCell
      /\ fetching
      /\ fetching' = FALSE
      /\ initialized' = TRUE
      /\ rows' = seeded
      /\ nextId' = seedNextId(table, id)
      /\ workouts' = fetchWorkoutsFromDB(seeded)
      /\ NoCall
      /\ lastOp' = Op("fetch", NoCell)
      /\ UNCHANGED <<fixedVars, cellCards, dragVars, pendingBlur>>

\* ------------------------------------------------------------ specification
\* REFERENCE_WEEK_START = getWeekStart(new Date(2020, 0, 1)): 1 January 2020 is
\* the Wednesday of week 0
\* ------------------------------------------------------------- the tooltip
\* TooltipProvider at mount: isVisibleRef false, hideTimeoutRef null (0), no
\* timer pending, opacity 0, empty content
TooltipHidden ==
  [isVisibleRef |-> FALSE, hideTimeoutRef |-> 0, timers |-> {}, nextTimer |-> 1,
   opacity |-> 0, contentRef |-> "", last |-> "none"]

Mounted ==
  /\ REFERENCE_WEEK_START = getWeekStart(FromLocal(3, 0))
  /\ rows = {}
  /\ nextId = 1
  /\ initialized = FALSE
  /\ storeOps = <<>>
  /\ initRuns = 0
  /\ tooltip = TooltipHidden
  /\ workouts = <<>>
  /\ fetching = TRUE
  /\ cellCards = [c \in Cells |-> NoCard]
  /\ inflight = <<>>
  /\ issued = 0
  /\ dragDataRef = NoDrag
  /\ webDrag = "idle"
  /\ mobileDragSourceRef = NoKey
  /\ mobileDragWorkoutRef = NoWorkout
  /\ mobileDragScrollEnabled = TRUE
  /\ panState = "idle"
  /\ scrollOffsetRef = 0
  /\ pendingBlur = NoCell
  /\ lastOp = [name |-> "init", cell |-> NoCell, calls |-> <<>>, ok |-> TRUE,
               available |-> TRUE,
               entry |-> NoCard, drag |-> NoDrag, rows |-> {}]

Init ==
  /\ tz \in TzOffsets
  /\ dst = NoDst
  /\ calc = NoCalc
  /\ env \in Envs
  /\ budget = MaxCalls
  /\ Mounted

Next ==
  \/ \E c \in Cells : Press(c)
  \/ \E c \in Cells, text \in TypedTexts : ChangeText(c, text)
  \/ \E c \in Cells : SubmitEditing(c)
  \/ \E c \in Cells : Blur(c)
  \/ \E c \in Cells : IconPress(c)
  \/ \E c \in Cells : TextPress(c)
  \/ \E c \in Cells : Delete(c)
  \/ \E c \in Cells : DragStart(c)
  \/ \E c \in Cells : Drop(c)
  \/ DragEnd
  \/ \E c \in Cells : TouchStart(c)
  \/ \E x \in ReleaseXs, y \in ReleaseYs : TouchEnd(x, y)
  \/ PanDropped
  \/ \E y \in ScrollOffsets : Scroll(y)
  \/ \E i \in 1..Len(inflight), ok \in BOOLEAN : Settle(i, ok)
  \/ Fetch

Spec == Init /\ [][Next]_vars

\* the cell edits with two store mutations, which may be in flight together
InitConcurrent ==
  /\ tz = 0
  /\ dst = NoDst
  /\ calc = NoCalc
  /\ env = [os |-> "web", width |-> 800]
  /\ budget = MaxConcurrentCalls
  /\ Mounted

NextConcurrent ==
  \/ \E c \in Cells : Press(c)
  \/ \E c \in Cells, text \in TypedTexts : ChangeText(c, text)
  \/ \E c \in Cells : SubmitEditing(c)
  \/ \E c \in Cells : Blur(c)
  \/ \E c \in Cells : IconPress(c)
  \/ \E c \in Cells : TextPress(c)
  \/ \E c \in Cells : Delete(c)
  \/ \E i \in 1..Len(inflight), ok \in BOOLEAN : Settle(i, ok)
  \/ Fetch

SpecConcurrent == InitConcurrent /\ [][NextConcurrent]_vars

\* the cell edits with one store mutation, the platform delivering the blur it
\* has queued and the query client's refetch completing whatever the user does
QueuedBlur == \E c \in Cells : pendingBlur = c /\ Blur(c)
InitRefresh ==
  /\ tz = 0
  /\ dst = NoDst
  /\ calc = NoCalc
  /\ env = [os |-> "web", width |-> 800]
  /\ budget = MaxCalls
  /\ Mounted
SpecRefresh ==
  InitRefresh /\ [][NextConcurrent]_vars /\ WF_vars(QueuedBlur) /\ SF_vars(Fetch)

\* dragging and deleting with two store mutations, in both time zones, on the
\* web and on a phone
InitDrag ==
  /\ tz \in TzOffsets
  /\ dst = NoDst
  /\ calc = NoCalc
  /\ env \in {e \in Envs : (e.os = "web") = (e.width >= MOBILE_BREAKPOINT)}
  /\ budget = MaxDragCalls
  /\ Mounted

NextDrag ==
  \/ \E c \in Cells : Delete(c)
  \/ \E c \in Cells : DragStart(c)
  \/ \E c \in Cells : Drop(c)
  \/ DragEnd
  \/ \E c \in Cells : TouchStart(c)
  \/ \E x \in ReleaseXs, y \in ReleaseYs : TouchEnd(x, y)
  \/ PanDropped
  \/ \E y \in ScrollOffsets : Scroll(y)
  \/ \E i \in 1..Len(inflight), ok \in BOOLEAN : Settle(i, ok)
  \/ Fetch

SpecDrag == InitDrag /\ [][NextDrag]_vars

\* the calendar functions and the weekly summary, applied to dates and week
\* indices around the reference week in zones with and without daylight-saving
\* time (clocks changing at 02:00 on a Sunday or on a Friday, or at midnight
\* on a Sunday)
DstRules ==
  { NoDst,
    [spring |-> 0 - 7, fall |-> 14, at |-> 2],
    [spring |-> 5, fall |-> 19, at |-> 2],
    [spring |-> 0 - 7, fall |-> 14, at |-> 0] }
WeekIndexes == (0 - MaxWeek)..MaxWeek
Dates == ((0 - MaxWeek) * 7 * HoursPerDay)..((MaxWeek + 1) * 7 * HoursPerDay)
\* what a day of the week may hold: nothing, a completed or a pending workout
DayWorkouts ==
  { NoWorkout,
    [NoWorkout EXCEPT !.id = 1, !.status = "completed", !.durationSec = 1800,
                      !.distanceMeters = 5000, !.load = 3],
    [NoWorkout EXCEPT !.id = 2, !.status = "pending", !.durationSec = 900,
                      !.distanceMeters = 2400, !.load = 2] }
\* workoutByDate with workouts on the Sunday, Wednesday and Saturday of a week
WorkoutByDate(weekIndex, sun, wed, sat) ==
  LET on == [k \in {7 * weekIndex, 7 * weekIndex + 3, 7 * weekIndex + 6} |->
               IF k = 7 * weekIndex THEN sun
               ELSE IF k = 7 * weekIndex + 3 THEN wed ELSE sat]
  IN  [k \in {d \in DOMAIN on : on[d] # NoWorkout} |-> on[k]]

\* the arguments the calendar functions are applied to: a date, a week index,
\* or a week index with the workouts of that week
Args ==
  { [NoArg EXCEPT !.date = d] : d \in Dates }
    \cup { [NoArg EXCEPT !.weekIndex = i] : i \in WeekIndexes }
    \cup { [NoArg EXCEPT !.weekIndex = i, !.workoutByDate = WorkoutByDate(i, sun, wed, sat)] :
             i \in WeekIndexes, sun \in DayWorkouts \ {NoWorkout},
             wed \in DayWorkouts, sat \in DayWorkouts }

Apply(fn, result) ==
  /\ calc.fn = "none"
  /\ calc' = [calc EXCEPT !.fn = fn, !.result = result]
  /\ UNCHANGED <<tz, dst, REFERENCE_WEEK_START, storeOps, initRuns, tooltip, env, budget, rows, nextId, initialized, workouts, fetching,
                 cellCards, inflight, issued, dragVars, pendingBlur, lastOp>>
ApplyDateToWeekIndex ==
  /\ calc.arg.workoutByDate = <<>>
  /\ Apply("dateToWeekIndex", dateToWeekIndex(calc.arg.date))
ApplyWeekIndexToStartDate ==
  /\ calc.arg.workoutByDate = <<>>
  /\ Apply("weekIndexToStartDate", weekIndexToStartDate(calc.arg.weekIndex))
ApplyGetWeekInfo ==
  /\ calc.arg.workoutByDate = <<>>
  /\ Apply("getWeekInfo", getWeekInfo(weekIndexToStartDate(calc.arg.weekIndex)))
ApplySummaryCell ==
  /\ calc.arg.workoutByDate # <<>>
  /\ Apply("SummaryCell",
           SummaryCell(weekWorkouts(calc.arg.weekIndex, calc.arg.workoutByDate)))

InitCalendar ==
  /\ tz \in TzOffsets
  /\ dst \in DstRules
  /\ calc \in { [fn |-> "none", arg |-> a, result |-> 0] : a \in Args }
  /\ env = [os |-> "web", width |-> 800]
  /\ budget = 0
  /\ Mounted

NextCalendar ==
  \/ ApplyDateToWeekIndex
  \/ ApplyWeekIndexToStartDate
  \/ ApplyGetWeekInfo
  \/ ApplySummaryCell

SpecCalendar == InitCalendar /\ [][NextCalendar]_vars

\* the window of rendered weeks, computed at mount for device clocks before,
\* in and after the reference week, and scrollToWeekIndex called with week
\* indices below, inside and above the window
NowWeeks == {0 - 150, 0 - 2, 0 - 1, 0, 1, 50, 99, 100, 101, 150}
ScrollTargets == {0 - 1, 0, 1, 50, 51, 199, 200, 201, 249, 250, 400}
WindowArgs ==
  { [NoArg EXCEPT !.date = FromLocal(7 * w + 3, 9), !.weekIndex = i] :
      w \in NowWeeks, i \in ScrollTargets }
ApplyGetWeekIndicesAroundToday ==
  Apply("getWeekIndicesAroundToday",
        getWeekIndicesAround(getCurrentWeekIndex(calc.arg.date)))
ApplyScrollToWeekIndex ==
  Apply("scrollToWeekIndex",
        scrollToWeekIndex(getWeekIndicesAround(getCurrentWeekIndex(calc.arg.date)).weekIndices,
                          calc.arg.weekIndex))

InitWindow ==
  /\ tz \in TzOffsets
  /\ dst = NoDst
  /\ calc \in { [fn |-> "none", arg |-> a, result |-> 0] : a \in WindowArgs }
  /\ env = [os |-> "web", width |-> 800]
  /\ budget = 0
  /\ Mounted

NextWindow ==
  \/ ApplyGetWeekIndicesAroundToday
  \/ ApplyScrollToWeekIndex

SpecWindow == InitWindow /\ [][NextWindow]_vars

\* the target cell of a touch release, for container widths of a phone and of
\* two tablets, release points at and next to the edges of rows and columns,
\* and the list scrolled to its top, into its second row and past its end
ContainerWidths == {400, 700, 800}
PointXs == {0, 50, 436, 437, 438, 699, 799}
PointYs == {0 - 10, 0, 39, 40, 135, 136, 231, 232, 951, 952, 1087, 1088}
ScrolledTo == {0, 680, TOTAL_WEEKS * ROW_HEIGHT, TOTAL_WEEKS * MOBILE_ROW_HEIGHT}
ReleaseArgs == { [x |-> x, y |-> y, scrollY |-> o] : x \in PointXs, y \in PointYs, o \in ScrolledTo }
ApplyTargetCell ==
  Apply("TargetCell", TargetCell(calc.arg.x, calc.arg.y + calc.arg.scrollY))

InitRelease ==
  /\ tz = 0
  /\ dst = NoDst
  /\ env \in { [os |-> "native", width |-> w] : w \in ContainerWidths }
  /\ calc \in { [fn |-> "none", arg |-> a, result |-> 0] : a \in ReleaseArgs }
  /\ calc.arg.x < env.width
  /\ budget = 0
  /\ Mounted

NextRelease == ApplyTargetCell

SpecRelease == InitRelease /\ [][NextRelease]_vars

\* the date of a workout written to the table and read back, for every hour
\* of the weeks around the reference week, in zones west and east of
\* Greenwich, with and without daylight-saving time
ApplyStoredDate ==
  /\ calc.arg.workoutByDate = <<>>
  /\ Apply("storedDate", dateStringToDate(dateToDateString(calc.arg.date)))

InitDateOnly ==
  /\ tz \in TzOffsets \cup {0 - 11, 5, 13}
  /\ dst \in DstRules
  /\ calc \in { [fn |-> "none", arg |-> [NoArg EXCEPT !.date = d], result |-> 0] : d \in Dates }
  /\ env = [os |-> "web", width |-> 800]
  /\ budget = 0
  /\ Mounted

NextDateOnly == ApplyStoredDate

SpecDateOnly == InitDateOnly /\ [][NextDateOnly]_vars

\* the tooltip provider under show() and hide() calls of the bar chart and
\* the timers of hide() running out, in any order
MaxTimers == 4
TooltipLabels == {"week 1", "week 2"}
allButTooltip ==
  <<tz, dst, REFERENCE_WEEK_START, calc, storeOps, initRuns, env, rows, nextId,
    initialized, workouts, fetching, cellCards, inflight, issued, budget, dragVars,
    pendingBlur, lastOp>>
\* show(data): clears the timeout hideTimeoutRef holds, takes the content,
\* marks the tooltip visible and brings its opacity to 1
show(label) ==
  /\ tooltip' =
       [tooltip EXCEPT !.timers = tooltip.timers \ {tooltip.hideTimeoutRef},
                       !.hideTimeoutRef = 0,
                       !.isVisibleRef = TRUE,
                       !.opacity = 1,
                       !.contentRef = label,
                       !.last = "show"]
  /\ UNCHANGED allButTooltip
\* hide(): nothing when the tooltip is not marked visible; else fades out and
\* sets a timeout, keeping its id in hideTimeoutRef
hide ==
  /\ tooltip.isVisibleRef => tooltip.nextTimer <= MaxTimers
  /\ tooltip' =
       IF ~tooltip.isVisibleRef THEN [tooltip EXCEPT !.last = "hide"]
       ELSE [tooltip EXCEPT !.opacity = 0,
                            !.timers = tooltip.timers \cup {tooltip.nextTimer},
                            !.hideTimeoutRef = tooltip.nextTimer,
                            !.nextTimer = tooltip.nextTimer + 1,
                            !.last = "hide"]
  /\ UNCHANGED allButTooltip
\* the callback of a timeout that was set and not cleared
HideTimerFires(t) ==
  /\ t \in tooltip.timers
  /\ tooltip' = [tooltip EXCEPT !.isVisibleRef = FALSE,
                                !.hideTimeoutRef = 0,
                                !.timers = tooltip.timers \ {t}]
  /\ UNCHANGED allButTooltip

InitTooltip ==
  /\ tz = 0
  /\ dst = NoDst
  /\ calc = NoCalc
  /\ env = [os |-> "web", width |-> 800]
  /\ budget = 0
  /\ Mounted

NextTooltip ==
  \/ \E label \in TooltipLabels : show(label)
  \/ hide
  \/ \E t \in 1..MaxTimers : HideTimerFires(t)

SpecTooltip == InitTooltip /\ [][NextTooltip]_vars

\* the store's functions called by several callers, each call advancing from
\* one await to the next: ensureWorkoutsTable reads the flag, awaits getDb and
\* execAsync(INIT_SQL) and then sets the flag; the call's own statements follow
MaxStoreOps == 3
StoreCalls ==
  { [kind |-> "fetch", arg |-> NoWorkout],
    [kind |-> "create",
     arg |-> WorkoutInput(0, "a", Null, LocalMidnight(13), "pending", "run", 0, 0, 0)],
    [kind |-> "delete", arg |-> [NoWorkout EXCEPT !.id = 1]] }
storeUnchanged ==
  UNCHANGED <<tz, dst, REFERENCE_WEEK_START, calc, tooltip, env, budget, workouts, fetching,
              cellCards, inflight, issued, dragVars, pendingBlur>>
\* a caller calls fetchWorkoutsFromDB, createWorkoutInDB or deleteWorkoutInDB
StoreCall(call) ==
  /\ Len(storeOps) < MaxStoreOps
  /\ storeOps' = Append(storeOps, [kind |-> call.kind, arg |-> call.arg, pc |-> "ensure"])
  /\ storeUnchanged
  /\ lastOp' = Op("call", NoCell)
  /\ UNCHANGED <<rows, nextId, initialized, initRuns>>
\* if (initialized) return; otherwise go on to await getDb()
EnsureCheck(i) ==
  /\ storeOps[i].pc = "ensure"
  /\ storeOps' = [storeOps EXCEPT ![i].pc = IF initialized THEN "body" ELSE "init"]
  /\ storeUnchanged
  /\ lastOp' = Op("ensureCheck", NoCell)
  /\ UNCHANGED <<rows, nextId, initialized, initRuns>>
\* await db.execAsync(INIT_SQL); initialized = true -- or the database throws
EnsureInit(i, ok) ==
  /\ storeOps[i].pc = "init"
  /\ storeOps' = [storeOps EXCEPT ![i].pc = IF ok THEN "body" ELSE "failed"]
  /\ rows' = IF ok THEN {} ELSE rows
  /\ nextId' = IF ok THEN 1 ELSE nextId
  /\ initialized' = (initialized \/ ok)
  /\ initRuns' = IF ok THEN initRuns + 1 ELSE initRuns
  /\ storeUnchanged
  /\ lastOp' = [Op("INIT_SQL", NoCell) EXCEPT !.ok = ok, !.available = ok]
\* the statements of the call itself
StoreBody(i) ==
  LET op == storeOps[i]
      seeded == seedWorkoutsFor2026IfNeeded(rows, nextId)
  IN  /\ op.pc = "body"
      /\ storeOps' = [storeOps EXCEPT ![i].pc = "done"]
      /\ rows' = IF op.kind = "fetch" THEN seeded
                 ELSE IF op.kind = "create" THEN createWorkoutInDB(rows, nextId, op.arg)
                 ELSE deleteWorkoutInDB(rows, op.arg.id)
      /\ nextId' = IF op.kind = "fetch" THEN seedNextId(rows, nextId)
                   ELSE IF op.kind = "create" THEN nextId + 1 ELSE nextId
      /\ storeUnchanged
      /\ lastOp' = Op(op.kind, NoCell)
      /\ UNCHANGED <<initialized, initRuns>>

InitStore ==
  /\ tz = 0
  /\ dst = NoDst
  /\ calc = NoCalc
  /\ env = [os |-> "web", width |-> 800]
  /\ budget = 0
  /\ Mounted

NextStore ==
  \/ \E call \in StoreCalls : StoreCall(call)
  \/ \E i \in 1..Len(storeOps) : EnsureCheck(i)
  \/ \E i \in 1..Len(storeOps), ok \in BOOLEAN : EnsureInit(i, ok)
  \/ \E i \in 1..Len(storeOps) : StoreBody(i)

SpecStore == InitStore /\ [][NextStore]_vars

\* list() and the merge of a created or updated workout into the cached list,
\* applied to tables and lists of up to MaxRows workouts on two dates
MaxRows == 3
ListDates == {13, 14}
StoredRow(id, date) ==
  [id |-> id, title |-> "w", description |-> Null, date |-> date, status |-> "pending",
   exercise_type |-> "run", duration_sec |-> 0, distance_meters |-> 0, load |-> 0]
\* the tables: every id at most once
Tables ==
  { { StoredRow(id, on[id]) : id \in DOMAIN on } :
      on \in UNION { [ids -> ListDates] : ids \in SUBSET (1..MaxRows) } }
\* a workout of hooks' Workout type, whose date is the stored date string
ListedWorkout(r) == [RowToWorkout(r) EXCEPT !.date = r.date]
\* the lists the cache can hold: list() of a table
CachedLists ==
  { [i \in 1..Len(OrderRows(t)) |-> ListedWorkout(OrderRows(t)[i])] : t \in Tables }
\* the workout a create or an update returns: a new id or one of the list's
MergedWorkouts ==
  { [ListedWorkout(StoredRow(id, date)) EXCEPT !.title = "a"] :
      id \in 1..(MaxRows + 1), date \in ListDates }
CacheArgs ==
  { [rows |-> t, previous |-> NoData, workout |-> NoWorkout] : t \in Tables }
    \cup { [rows |-> {}, previous |-> p, workout |-> w] :
             p \in {NoData} \cup { QueryData(l) : l \in CachedLists },
             w \in MergedWorkouts }

ApplyFetchWorkoutsFromDB ==
  /\ calc.arg.workout = NoWorkout
  /\ Apply("fetchWorkoutsFromDB", fetchWorkoutsFromDB(calc.arg.rows))
ApplyUpsertWorkout ==
  /\ calc.arg.workout # NoWorkout
  /\ Apply("upsertWorkout", upsertWorkout(calc.arg.previous, calc.arg.workout))

InitCache ==
  /\ tz \in TzOffsets
  /\ dst = NoDst
  /\ calc \in { [fn |-> "none", arg |-> a, result |-> 0] : a \in CacheArgs }
  /\ env = [os |-> "web", width |-> 800]
  /\ budget = 0
  /\ Mounted

NextCache ==
  \/ ApplyFetchWorkoutsFromDB
  \/ ApplyUpsertWorkout

SpecCache == InitCache /\ [][NextCache]_vars

\* ------------------------------------------------------------ properties
\* what the last step was
SubmitEvent == lastOp.name \in {"submit", "blurAfterSubmit"}
SubmitOfInput == SubmitEvent /\ lastOp.entry.state = "input"
DropEvent == lastOp.name \in {"drop", "touchEnd"} /\ lastOp.cell \in Cells
Dragging == lastOp.drag.workout # NoWorkout
Settled(kind) == lastOp.name = "settle" /\ lastOp.calls[1].kind = kind
NoStoreCall == lastOp.calls = <<>>
OneStoreCall(kind) == Len(lastOp.calls) = 1 /\ lastOp.calls[1].kind = kind

\* the text of an input without its leading and trailing blanks
Blank(text) == text \in {"", " "}
Stripped(text) == IF text = " a " THEN "a" ELSE IF text = " " THEN "" ELSE text

\* the cycle pending -> completed -> error -> pending
CycleNext(status) ==
  CASE status = "pending" -> "completed"
    [] status = "completed" -> "error"
    [] status = "error" -> "pending"
Statuses == {"pending", "completed", "error"}

\* C1: a submit of non-empty text in an input cell whose date already has a
\* workout issues one store update, on that workout and with the trimmed text
\* as its title, and no create
C1_SubmitOnWorkoutDateUpdates ==
  (SubmitOfInput /\ ~Blank(lastOp.entry.value) /\ HasWorkout(lastOp.entry.dateKey)) =>
    /\ OneStoreCall("update")
    /\ lastOp.calls[1].id = workoutsByDate[lastOp.entry.dateKey].id
    /\ lastOp.calls[1].title = Stripped(lastOp.entry.value)

C1_Witness ==
  /\ SubmitOfInput
  /\ lastOp.entry.value = " a "
  /\ HasWorkout(lastOp.entry.dateKey)
  /\ OneStoreCall("update")

\* C2: a submit of empty or blank text in an input cell that has no backing
\* workout removes the cell's entry and issues no store call
C2_BlankSubmitDiscards ==
  (SubmitOfInput /\ Blank(lastOp.entry.value) /\ WorkoutOf(lastOp.cell) = NoWorkout) =>
    /\ cellCards[lastOp.cell] = NoCard
    /\ NoStoreCall

C2_Witness ==
  /\ SubmitOfInput
  /\ lastOp.entry.value = " "
  /\ WorkoutOf(lastOp.cell) = NoWorkout
  /\ cellCards[lastOp.cell] = NoCard

C4_SingleFlight ==
  \A c \in Cells :
    Cardinality({ i \in 1..Len(inflight) :
                    inflight[i].cell = c /\ inflight[i].cb = "submit" }) <= 1

\* C5: when the create of a pending cell settles and the cell has no other
\* call in flight, the cell's entry is gone if the create succeeded and in
\* error state if it failed
C5_SettledCreateResolvesCell ==
  ( /\ Settled("create")
    /\ lastOp.entry.state = "pending"
    /\ \A i \in 1..Len(inflight) : inflight[i].cell # lastOp.cell ) =>
    IF lastOp.ok
    THEN cellCards[lastOp.cell] = NoCard
    ELSE cellCards[lastOp.cell].state = "error"

\* C6: after a store call has failed, the cell that issued it shows error
C6_FailureShowsError ==
  (lastOp.name = "settle" /\ ~lastOp.ok) => cardState(lastOp.cell) = "error"

C8_DropOnWorkoutIsNoOp ==
  (DropEvent /\ WorkoutOf(lastOp.cell) # NoWorkout) =>
    NoStoreCall /\ rows = lastOp.rows

C8_Witness ==
  /\ lastOp.name = "drop"
  /\ lastOp.cell \in Cells
  /\ Dragging
  /\ lastOp.drag.sourceDateKey # CellDay(lastOp.cell)
  /\ lastOp.entry = NoCard
  /\ WorkoutOf(lastOp.cell) # NoWorkout
  /\ NoStoreCall

\* C9: a drop or a touch release of a dragged workout on the cell of the date
\* it was dragged from issues no store call
C9_DropOnSourceIsNoOp ==
  (DropEvent /\ Dragging /\ lastOp.drag.sourceDateKey = CellDay(lastOp.cell)) =>
    NoStoreCall

C9_Witness ==
  /\ lastOp.name = "touchEnd"
  /\ lastOp.cell \in Cells
  /\ Dragging
  /\ lastOp.drag.sourceDateKey = CellDay(lastOp.cell)
  /\ NoStoreCall

\* C10: a drop or a touch release on a cell whose entry is in input or pending
\* state issues no store call and leaves that entry as it was
C10_DropOnEditedCellIsNoOp ==
  (DropEvent /\ lastOp.entry.state \in {"input", "pending"}) =>
    NoStoreCall /\ cellCards[lastOp.cell] = lastOp.entry

C10_Witness ==
  /\ lastOp.name = "touchEnd"
  /\ lastOp.cell \in Cells
  /\ Dragging
  /\ lastOp.drag.sourceDateKey # CellDay(lastOp.cell)
  /\ WorkoutOf(lastOp.cell) = NoWorkout
  /\ lastOp.entry.state = "input"
  /\ NoStoreCall

\* the date key of the grid cell that shows a stored row
ShownDay(r) == formatDateKey(dateStringToDate(r.date))
ValidDrop ==
  /\ DropEvent
  /\ Dragging
  /\ lastOp.drag.sourceDateKey # CellDay(lastOp.cell)
  /\ ~HasWorkout(CellDay(lastOp.cell))
  /\ lastOp.entry.state \notin {"input", "pending"}

\* C11: a drop or a touch release that passes the three validations issues
\* exactly one update, of the dragged workout with the target cell's date, and
\* once that update has succeeded the workout's row is shown on the target
\* date (so no longer in the cell it was dragged from)
C11_ValidDropMovesWorkout ==
  /\ ValidDrop =>
        /\ OneStoreCall("update")
        /\ lastOp.calls[1].id = lastOp.drag.workout.id
        /\ formatDateKey(lastOp.calls[1].date) = CellDay(lastOp.cell)
  /\ (Settled("update") /\ lastOp.ok) =>
        ShownDay(RowOf(rows, lastOp.calls[1].id)) = CellDay(lastOp.cell)

\* the fields of a workout other than its date
SameButDate(a, b) ==
  /\ a.id = b.id
  /\ a.title = b.title
  /\ a.description = b.description
  /\ a.status = b.status
  /\ a.exerciseType = b.exerciseType
  /\ a.durationSec = b.durationSec
  /\ a.distanceMeters = b.distanceMeters
  /\ a.load = b.load

C13_ScrollEnabledUnlessDragging == panState = "idle" => mobileDragScrollEnabled

\* the workouts of the cached list, and those among them that come first of
\* their date in the store's order (date descending, then id descending)
Cached == { workouts[i] : i \in 1..Len(workouts) }
FirstOfDate(w) == \A o \in Cached : o.date = w.date => o.id <= w.id

\* C14: a cell shows at most one workout; a date with workouts in the list
\* shows the one that comes first in the store's order, and a workout that is
\* not the first of its date is shown in no cell
C14_FirstOfDateShown ==
  \A c \in Cells :
    /\ WorkoutOf(c) # NoWorkout =>
          /\ WorkoutOf(c) \in Cached
          /\ formatDateKey(WorkoutOf(c).date) = CellDay(c)
          /\ FirstOfDate(WorkoutOf(c))
    /\ \A w \in Cached :
          /\ formatDateKey(w.date) = CellDay(c) => WorkoutOf(c) # NoWorkout
          /\ ~FirstOfDate(w) => WorkoutOf(c) # w

C14_Witness ==
  \E c \in Cells, w \in Cached :
    /\ WorkoutOf(c) # NoWorkout
    /\ w.date = WorkoutOf(c).date
    /\ w.id < WorkoutOf(c).id

\* the sum of a field over the workouts that workoutByDate holds for the
\* given dates
RECURSIVE SumOver(_, _, _)
SumOver(byDate, keys, field) ==
  IF keys = {} THEN 0
  ELSE LET k == CHOOSE x \in keys : TRUE
       IN  byDate[k][field] + SumOver(byDate, keys \ {k}, field)
WeekKeys(byDate, weekIndex) ==
  { k \in DOMAIN byDate : LocalDay(weekIndexToStartDate(weekIndex)) <= k
                           /\ k < LocalDay(weekIndexToStartDate(weekIndex)) + 7 }
CompletedKeys(byDate, weekIndex) ==
  { k \in WeekKeys(byDate, weekIndex) : byDate[k].status = "completed" }

\* C15: the summary of a week gives, for durationSec, distanceMeters and load,
\* as value the sum over the completed workouts of the week's seven dates and
\* as target the sum over all workouts of those dates
C15_WeekSummarySums ==
  calc.fn = "SummaryCell" =>
    LET byDate == calc.arg.workoutByDate
        all == WeekKeys(byDate, calc.arg.weekIndex)
        completed == CompletedKeys(byDate, calc.arg.weekIndex)
    IN  /\ calc.result.completedSec = SumOver(byDate, completed, "durationSec")
        /\ calc.result.completedMeters = SumOver(byDate, completed, "distanceMeters")
        /\ calc.result.completedLoad = SumOver(byDate, completed, "load")
        /\ calc.result.totalSec = SumOver(byDate, all, "durationSec")
        /\ calc.result.totalMeters = SumOver(byDate, all, "distanceMeters")
        /\ calc.result.totalLoad = SumOver(byDate, all, "load")

\* C16: for every date d, at any time of day, the start date of d's week index
\* is getWeekStart(d), the start of the Sunday on or before d
C16_StartOfWeekIndexIsWeekStart ==
  calc.fn = "dateToWeekIndex" =>
    /\ weekIndexToStartDate(calc.result) = getWeekStart(calc.arg.date)
    /\ getWeekStart(calc.arg.date) = LocalMidnight(LocalDay(calc.arg.date) - getDay(calc.arg.date))
    /\ getWeekStart(calc.arg.date) <= calc.arg.date

C16_Witness ==
  /\ calc.fn = "dateToWeekIndex"
  /\ dst # NoDst
  /\ getHours(calc.arg.date) # 0
  /\ Offset(calc.arg.date) # Offset(getWeekStart(calc.arg.date))
  /\ calc.result < 0

\* C17: for every week index i, negative, zero or positive, the week index of
\* the start date of week i is i
C17_WeekIndexOfStartDate ==
  calc.fn = "weekIndexToStartDate" => dateToWeekIndex(calc.result) = calc.arg.weekIndex

C17_Witness ==
  /\ calc.fn = "weekIndexToStartDate"
  /\ calc.arg.weekIndex < 0
  /\ Offset(calc.result) # Offset(REFERENCE_WEEK_START)

\* C18: for every week index i, getWeekInfo of the week's start date has seven
\* entries on seven consecutive calendar days, the first of them being the
\* week's start date, also in a week with a day that is not 24 hours long
C18_WeekInfoSevenConsecutiveDays ==
  calc.fn = "getWeekInfo" =>
    /\ Len(calc.result) = 7
    /\ calc.result[1].date = weekIndexToStartDate(calc.arg.weekIndex)
    /\ \A k \in 1..7 :
          LocalDay(calc.result[k].date) = LocalDay(calc.result[1].date) + (k - 1)

\* C19: an update of an id the table does not hold fails, and the table is
\* left as it was
C19_UpdateOfAbsentIdFails ==
  (Settled("update") /\ lastOp.calls[1].id \notin RowIds(lastOp.rows)) =>
    ~lastOp.ok /\ rows = lastOp.rows

C19_Witness ==
  /\ Settled("update")
  /\ lastOp.available
  /\ lastOp.calls[1].id \notin RowIds(lastOp.rows)
  /\ lastOp.rows # {}
  /\ ~lastOp.ok
  /\ initialized

\* C20: a delete of an id the table does not hold succeeds and leaves the
\* table as it was, so a second delete of an id ends as the first one did
C20_DeleteOfAbsentIdIsNoOp ==
  (Settled("delete") /\ lastOp.available
     /\ lastOp.calls[1].id \notin RowIds(lastOp.rows)) =>
    lastOp.ok /\ rows = lastOp.rows

C20_Witness ==
  /\ Settled("delete")
  /\ lastOp.available
  /\ lastOp.calls[1].id \notin RowIds(lastOp.rows)
  /\ lastOp.rows # {}
  /\ lastOp.ok

\* the cached list is what list() returns for the table as it is
CacheIsStore == workouts = fetchWorkoutsFromDB(rows)
SettledOk == lastOp.name = "settle" /\ lastOp.ok

\* C21: a create, update or delete that has succeeded leaves the list query
\* invalidated (refetching); when a refetch completes the cached list is the
\* table's contents in list() order; and after every successful mutation the
\* cached list comes to equal the table's contents
C21_MutationRefreshesCache ==
  /\ [](SettledOk => fetching)
  /\ [](lastOp.name = "fetch" => CacheIsStore)
  /\ (SettledOk ~> CacheIsStore)

C21_Witness ==
  /\ lastOp.name = "fetch"
  /\ issued = MaxCalls
  /\ inflight = <<>>
  /\ \E i \in 1..Len(workouts) : workouts[i].title = "a"
  /\ CacheIsStore

\* a list in list() order: date descending and, within a date, id descending
DescByDateThenId(list) ==
  \A i, j \in 1..Len(list) :
    i < j => \/ list[i].date > list[j].date
             \/ list[i].date = list[j].date /\ list[i].id > list[j].id
ListIds(list) == { list[i].id : i \in 1..Len(list) }

\* C22: list() returns every row of the table once, by date descending and
\* within a date by id descending; the merge of a created or updated workout
\* into a cached list gives a list in that order which holds the workout
\* merged and, of the list before, the workouts with another id
C22_ListOrderKept ==
  /\ calc.fn = "fetchWorkoutsFromDB" =>
        /\ DescByDateThenId(calc.result)
        /\ Len(calc.result) = Cardinality(calc.arg.rows)
        /\ { calc.result[i] : i \in 1..Len(calc.result) }
             = { RowToWorkout(r) : r \in calc.arg.rows }
  /\ calc.fn = "upsertWorkout" =>
        LET previous == calc.arg.previous.list
            kept == { previous[i] : i \in 1..Len(previous) } \ 
                      { w \in { previous[i] : i \in 1..Len(previous) } : w.id = calc.arg.workout.id }
        IN  /\ DescByDateThenId(calc.result)
            /\ { calc.result[i] : i \in 1..Len(calc.result) } = kept \cup {calc.arg.workout}
            /\ Len(calc.result) = Cardinality(kept) + 1

C22_Witness ==
  /\ calc.fn = "upsertWorkout"
  /\ Len(calc.arg.previous.list) = MaxRows
  /\ calc.arg.workout.id \in ListIds(calc.arg.previous.list)
  /\ calc.result # [calc.arg.previous.list EXCEPT
                       ![findIndex(calc.arg.previous.list, calc.arg.workout.id)] = calc.arg.workout]
  /\ calc.result[2] = calc.arg.workout

\* C23: the table-initialisation statements are executed at most once, and
\* never on a table that holds records
C23_InitRunsOnce ==
  /\ initRuns <= 1
  /\ (lastOp.name = "INIT_SQL" /\ lastOp.ok) => lastOp.rows = {}

\* C24: an entry of the edit map belongs to a cell that shows no workout or is
\* in input state; a submit whose store call has succeeded and a submit of
\* blank text leave the cell without an entry
C24_EntryOnlyWhileEditing ==
  /\ \A c \in Cells :
        HasCard(c) => WorkoutOf(c) = NoWorkout \/ cellCards[c].state = "input"
  /\ (lastOp.name = "settle" /\ lastOp.ok /\ lastOp.calls[1].cb = "submit") =>
        cellCards[lastOp.cell] = NoCard
  /\ (SubmitOfInput /\ Blank(lastOp.entry.value)) => cellCards[lastOp.cell] = NoCard

\* C25: the drag payload lives for one gesture: it is null again after drag
\* end on the web and after the release on touch, it is null whenever no web
\* drag is in progress, and a drop event with no drag in progress issues no
\* store call
C25_DragPayloadOneGesture ==
  /\ lastOp.name = "dragEnd" => dragDataRef = NoDrag
  /\ lastOp.name = "touchEnd" =>
        mobileDragSourceRef = NoKey /\ mobileDragWorkoutRef = NoWorkout
  /\ webDrag = "idle" => dragDataRef = NoDrag
  /\ (lastOp.name = "drop" /\ webDrag = "idle") => NoStoreCall

\* the state a cell showed before the last step (DayCell.cardState of the
\* entry as it was; icon and text presses leave the cached list alone)
StateBefore ==
  IF lastOp.entry # NoCard /\ lastOp.entry.state = "input" THEN "input"
  ELSE IF WorkoutOf(lastOp.cell) # NoWorkout THEN WorkoutOf(lastOp.cell).status
  ELSE IF lastOp.entry # NoCard THEN lastOp.entry.state ELSE "pending"
ErrorBefore == lastOp.cell \in Cells /\ StateBefore = "error"

TitleBefore ==
  IF WorkoutOf(lastOp.cell) # NoWorkout THEN WorkoutOf(lastOp.cell).title
  ELSE lastOp.entry.value

\* C27: a text press on a cell that shows pending, completed or error puts the
\* cell in input state, with the title it showed as the input's value and the
\* cell's own date as the entry's date key, and issues no store call
C27_TextPressPrefills ==
  (lastOp.name = "textPress" /\ StateBefore \in Statuses) =>
    /\ cardState(lastOp.cell) = "input"
    /\ cellCards[lastOp.cell].value = TitleBefore
    /\ cellCards[lastOp.cell].dateKey = CellDay(lastOp.cell)
    /\ NoStoreCall

\* west of Greenwich a text press has opened the card of a stored workout
C27_Witness ==
  /\ lastOp.name = "textPress"
  /\ tz < 0
  /\ lastOp.entry = NoCard
  /\ WorkoutOf(lastOp.cell) # NoWorkout
  /\ cellCards[lastOp.cell] =
       [state |-> "input", value |-> "w", dateKey |-> CellDay(lastOp.cell)]

\* C28: a delete on a cell that shows a workout issues exactly one store
\* delete, for that workout's id, and leaves the cell's entry alone; a delete
\* that fails leaves table and entry as they were, and an entry that goes away
\* when a delete settles goes away after the row has been deleted
C28_DeleteDiscardsAfterSuccess ==
  /\ (lastOp.name = "delete" /\ WorkoutOf(lastOp.cell) # NoWorkout) =>
        /\ OneStoreCall("delete")
        /\ lastOp.calls[1].id = WorkoutOf(lastOp.cell).id
        /\ cellCards[lastOp.cell] = lastOp.entry
  /\ (Settled("delete") /\ ~lastOp.ok) =>
        rows = lastOp.rows /\ cellCards[lastOp.cell] = lastOp.entry
  /\ (Settled("delete") /\ cellCards[lastOp.cell] # lastOp.entry) =>
        /\ lastOp.ok
        /\ cellCards[lastOp.cell] = NoCard
        /\ lastOp.calls[1].id \notin RowIds(rows)

\* the delete of a workout whose card was open for editing has failed: the
\* row and the entry are still there
C28_Witness ==
  /\ Settled("delete")
  /\ ~lastOp.ok
  /\ lastOp.entry # NoCard
  /\ cellCards[lastOp.cell] = lastOp.entry
  /\ lastOp.calls[1].id \in RowIds(rows)
  /\ WorkoutOf(lastOp.cell) # NoWorkout

\* the week of the device clock and the window computed from it
NowWeek == getCurrentWeekIndex(calc.arg.date)
Window == getWeekIndicesAround(NowWeek).weekIndices

\* C29: scrollToWeekIndex(i) asks the list to scroll to the position p with
\* weekIndices[p] = i when i is in the window, and does nothing when it is not
C29_ScrollToWeekInWindow ==
  calc.fn = "scrollToWeekIndex" =>
    IF \E p \in 1..Len(Window) : Window[p] = calc.arg.weekIndex
    THEN /\ calc.result # NoScroll
         /\ calc.result.index \in 0..(Len(Window) - 1)
         /\ Window[calc.result.index + 1] = calc.arg.weekIndex
    ELSE calc.result = NoScroll

\* week 150 is current, the window starts at week 50, and week 51 is at
\* position 1
C29_Witness ==
  /\ calc.fn = "scrollToWeekIndex"
  /\ NowWeek = 150
  /\ calc.arg.weekIndex = 51
  /\ calc.result = [index |-> 1, animated |-> TRUE]

\* C30: whatever the current week index, the window is TOTAL_WEEKS consecutive
\* ascending week indices centered on the current week, and scrollToIndex is
\* the position of the current week in it
C30_WindowCenteredOnCurrentWeek ==
  calc.fn = "getWeekIndicesAroundToday" =>
    /\ Len(calc.result.weekIndices) = TOTAL_WEEKS
    /\ \A p \in 1..(TOTAL_WEEKS - 1) :
          calc.result.weekIndices[p + 1] = calc.result.weekIndices[p] + 1
    /\ calc.result.scrollToIndex \in 0..(TOTAL_WEEKS - 1)
    /\ calc.result.weekIndices[calc.result.scrollToIndex + 1] = NowWeek
    /\ calc.result.scrollToIndex = TOTAL_WEEKS \div 2

\* C31: a press reaches the grid only for a cell without a workout; it creates
\* the entry {input, "", the cell's date} when the cell has no entry and leaves
\* an existing entry as it is; a text change replaces the value of the cell's
\* entry and nothing else; neither issues a store call
C31_PressCreatesEntryOnce ==
  /\ lastOp.name = "press" =>
        /\ WorkoutOf(lastOp.cell) = NoWorkout
        /\ cellCards[lastOp.cell] =
             IF lastOp.entry = NoCard
             THEN [state |-> "input", value |-> "", dateKey |-> CellDay(lastOp.cell)]
             ELSE lastOp.entry
        /\ NoStoreCall
  /\ lastOp.name = "changeText" =>
        /\ lastOp.entry # NoCard
        /\ cellCards[lastOp.cell].value \in TypedTexts
        /\ cellCards[lastOp.cell] =
             [lastOp.entry EXCEPT !.value = cellCards[lastOp.cell].value]
        /\ NoStoreCall

\* a cell whose input holds typed text has been pressed again: the text is
\* still there
C31_Witness ==
  /\ lastOp.name = "press"
  /\ lastOp.entry.state = "input"
  /\ lastOp.entry.value = " a "
  /\ cellCards[lastOp.cell] = lastOp.entry

\* C32: the target cell that handleMobileDragEnd computes from a release
\* point is the cell rendered under that point; a point over a summary cell,
\* above the first row or past the last row of the window has no target cell
C32_TargetIsCellUnderRelease ==
  calc.fn = "TargetCell" =>
    calc.result = RenderedCell(calc.arg.x, calc.arg.y + calc.arg.scrollY)

\* C33: a date written to the table as a local day and read back falls on
\* the same local day: formatDateKey(dateStringToDate(dateToDateString(d)))
\* is formatDateKey(d), in every time zone
C33_StoredDayRoundTrip ==
  calc.fn = "storedDate" => formatDateKey(calc.result) = formatDateKey(calc.arg.date)

\* C34: an update issued by an icon press or by a submit on the cell that
\* shows the workout leaves the date of the workout's row as it was
C34_EditKeepsStoredDate ==
  (Settled("update") /\ lastOp.ok /\ WorkoutOf(lastOp.cell).id = lastOp.calls[1].id) =>
    RowOf(rows, lastOp.calls[1].id).date = RowOf(lastOp.rows, lastOp.calls[1].id).date

\* C35: the table holds at most one workout per date, whatever the order in
\* which the grid's operations, the store's completions and the refetches of
\* the list happen
C35_OneWorkoutPerDate ==
  \A r1 \in rows, r2 \in rows : r1.date = r2.date => r1.id = r2.id

\* C36: a list() that runs after the first one (the cached list is not empty:
\* with drags and deletes only, the first list() has inserted the seed
\* workouts) leaves the number of rows in the table as it is
C36_ListNeverAddsRows ==
  [][(lastOp'.name = "fetch" /\ lastOp' # lastOp /\ workouts # <<>>) =>
       Cardinality(rows') = Cardinality(rows)]_vars

\* the status a workout will have once the updates in flight before the last
\* step's call have settled in the order they were issued
StatusAhead(id) ==
  LET earlier == { i \in 1..(Len(inflight) - 1) :
                     inflight[i].kind = "update" /\ inflight[i].id = id }
  IN  IF earlier = {} THEN RowOf(rows, id).status
      ELSE inflight[CHOOSE i \in earlier : \A j \in earlier : j <= i].status

\* C37: every icon press on a workout's card asks the store for the status one
\* step along pending -> completed -> error -> pending from the status the
\* presses before it lead to, so that n presses make n steps
C37_IconPressesAddUp ==
  (lastOp.name = "iconPress" /\ Len(lastOp.calls) = 1 /\ lastOp.calls[1].id \in RowIds(rows)) =>
    lastOp.calls[1].status = CycleNext(StatusAhead(lastOp.calls[1].id))

\* C38: the callbacks of a submit leave the entry of a cell that is in input
\* state as it is: when the store call of a submit settles while its cell is
\* being edited again, the entry after the callback is the entry before it
C38_CallbackSparesReopenedInput ==
  (lastOp.name = "settle" /\ lastOp.calls[1].cb = "submit" /\ lastOp.entry.state = "input") =>
    cellCards[lastOp.cell] = lastOp.entry

\* C39: every step changes at most the edit-map entry of the cell it acts on
\* (the pressed, edited or deleted cell, the cell whose store call settles);
\* the entries of all other cells stay as they are
C39_OtherEntriesUntouched ==
  [][\A c \in Cells : c # lastOp'.cell => cellCards'[c] = cellCards[c]]_vars

\* text has been typed into one cell while another cell holds typed text of
\* its own
C39_Witness ==
  /\ lastOp.name = "changeText"
  /\ cellCards[lastOp.cell].value = " "
  /\ \E c \in Cells \ {lastOp.cell} : cellCards[c].state = "input" /\ cellCards[c].value = " a "

\* C40: whenever the last call was show() the tooltip is marked visible, and
\* whenever the last call was hide() the tooltip is faded out
C40_ShowOutlivesHideTimers ==
  /\ tooltip.last = "show" => tooltip.isVisibleRef
  /\ tooltip.last = "hide" => tooltip.opacity = 0

====
